---- MODULE Spec2Model ----
(***************************************************************************)
(* A model of langchain_mcp/toolkit.py: the JSON-Schema-to-pydantic        *)
(* compiler (resolve_ref, get_field_type, create_model_from_schema).       *)
(*                                                                         *)
(* Representation.                                                         *)
(*  - A JSON value is a tagged record (JStr, JInt, JBool, JNull, JList,    *)
(*    JObj).  A JSON object is an ordered sequence of <<key, value>>       *)
(*    pairs, as a Python dict keeps insertion order.                       *)
(*  - A Python string is a sequence of symbols.  A symbol is "#", "/" or   *)
(*    an atom: a piece of text holding neither "#" nor "/"; the atoms a    *)
(*    pointer walk compares are chosen so that one is a substring of       *)
(*    another only when they are equal.  Dict keys and model names are     *)
(*    single atoms and are written as TLA+ strings.                        *)
(*  - A Python type (what get_field_type returns) is a tagged record too:  *)
(*    Prim, Fwd (a str used as forward reference), EnumT, ListT, DictT,    *)
(*    UnionT, and the value typing.Any.  A raised exception is the record  *)
(*    Raise(exc, seg).                                                      *)
(***************************************************************************)
EXTENDS Integers, Sequences, FiniteSets, TLC

VARIABLES
    module,       \* sys.modules[__name__]: attribute name -> object
    status,       \* per caller: "idle" | "running" | "done" | "failed"
    job,          \* per caller: the document and the name it compiles
    stack,        \* per caller: the frames of create_model_from_schema
    sets,         \* per caller: the set objects it allocated (created_models)
    exc,          \* per caller: the exception that ended its last call
    result,       \* per caller: what its last top-level call returned
    runs,         \* per caller: top-level calls made so far
    fresh,        \* per caller: its last call started with an empty created_models
    registry,     \* per caller: the set object its last top-level call used
    constructed,  \* per caller: the names lines 172-186 ran for in this call
    committed,    \* per caller: the classes line 188 stored in this call
    probe         \* the last direct call of a pure function and its result

vars == <<module, status, job, stack, sets, exc, result, runs, fresh,
          registry, constructed, committed, probe>>

buildVars == <<module, status, job, stack, sets, exc, result, runs, fresh,
               registry, constructed, committed>>

----------------------------------------------------------------------------
(* JSON values *)

JStr(s) == [k |-> "str", s |-> s]
JAtom(a) == JStr(<<a>>)
JInt(n) == [k |-> "int", n |-> n]
JBool(b) == [k |-> "bool", b |-> b]
JNull == [k |-> "null"]
JList(xs) == [k |-> "list", items |-> xs]
JObj(kv) == [k |-> "obj", kv |-> kv]

IsDict(v) == v.k = "obj"

Keys(o) == {o.kv[i][1] : i \in 1..Len(o.kv)}

\* key in o
Has(o, key) == key \in Keys(o)

\* o[key]
Get(o, key) == o.kv[CHOOSE i \in 1..Len(o.kv) : o.kv[i][1] = key][2]

\* o.get(key, dflt)
GetOr(o, key, dflt) == IF Has(o, key) THEN Get(o, key) ELSE dflt

----------------------------------------------------------------------------
(* Python objects *)

Raise(e, seg) == [k |-> "raise", exc |-> e, seg |-> seg]
IsRaise(x) == x.k = "raise"

AnyT == [k |-> "Any"]
Prim(n) == [k |-> "prim", name |-> n]
NoneType == Prim("NoneType")
\* a value that is no type, returned as the type: the str of a forward reference
Fwd(title) == [k |-> "fwd", title |-> title]
EnumT(ms) == [k |-> "Enum", members |-> ms]
ListT(t) == [k |-> "list", item |-> t]
DictT(t) == [k |-> "dict", value |-> t]
UnionT(args) == [k |-> "Union", args |-> args]
Ellipsis == [k |-> "Ellipsis"]

\* The first raised exception of a sequence of results, in evaluation order.
HasRaise(rs) == \E i \in 1..Len(rs) : IsRaise(rs[i])
FirstRaise(rs) == rs[CHOOSE i \in 1..Len(rs) :
                        IsRaise(rs[i]) /\ \A j \in 1..(i-1) : ~IsRaise(rs[j])]

\* [t for t in types if t is not type(None)]
RECURSIVE DropNone(_)
DropNone(ts) ==
    IF ts = <<>> THEN <<>>
    ELSE (IF Head(ts) = NoneType THEN <<>>
          ELSE <<Head(ts)>>) \o DropNone(Tail(ts))

InSeq(x, xs) == \E i \in 1..Len(xs) : xs[i] = x

\* xs with every later duplicate of an element removed
RECURSIVE Dedup(_)
Dedup(xs) ==
    IF xs = <<>> THEN <<>>
    ELSE LET front == Dedup(SubSeq(xs, 1, Len(xs) - 1))
             last == xs[Len(xs)]
         IN IF InSeq(last, front) THEN front ELSE Append(front, last)

\* typing.Union[tuple(args)]: no arguments is a TypeError; nested unions are
\* flattened, duplicates dropped, a single argument is returned as it is.
RECURSIVE Flatten(_)
Flatten(args) ==
    IF args = <<>> THEN <<>>
    ELSE (IF Head(args).k = "Union" THEN Head(args).args ELSE <<Head(args)>>)
         \o Flatten(Tail(args))

PyUnion(args) ==
    IF args = <<>> THEN Raise("TypeError", <<>>)
    ELSE LET flat == Dedup(Flatten(args))
         IN IF Len(flat) = 1 THEN flat[1] ELSE UnionT(flat)

\* a | b: a str has no __or__ and type.__ror__ refuses it.
PyOr(a, b) ==
    IF a.k = "fwd" \/ b.k = "fwd" THEN Raise("TypeError", <<>>)
    ELSE PyUnion(<<a, b>>)

----------------------------------------------------------------------------
(* resolve_ref *)

\* ref.startswith("#/")
StartsWithLocal(ref) == Len(ref) >= 2 /\ ref[1] = "#" /\ ref[2] = "/"

\* s.lstrip(chars): every leading symbol that is in chars is dropped
RECURSIVE lstrip(_, _)
lstrip(s, chars) ==
    IF s # <<>> /\ Head(s) \in chars THEN lstrip(Tail(s), chars) ELSE s

\* s.split(sep)
RECURSIVE split(_, _)
split(s, sep) ==
    IF \E i \in 1..Len(s) : s[i] = sep
    THEN LET i == CHOOSE n \in 1..Len(s) :
                      s[n] = sep /\ \A m \in 1..(n-1) : s[m] # sep
         IN <<SubSeq(s, 1, i - 1)>> \o split(SubSeq(s, i + 1, Len(s)), sep)
    ELSE <<s>>

\* the str `part` equals the dict key `key`
KeyIs(key, part) == (part = <<>> /\ key = "") \/ part = <<key>>

IsSubstring(part, s) ==
    \E i \in 0..Len(s) : i + Len(part) <= Len(s)
                         /\ SubSeq(s, i + 1, i + Len(part)) = part

\* `part not in current` followed by `current[part]`, one step of the walk
WalkStep(current, part) ==
    CASE current.k = "obj" ->
            IF \E key \in Keys(current) : KeyIs(key, part)
            THEN [k |-> "ok", v |-> Get(current,
                      CHOOSE key \in Keys(current) : KeyIs(key, part))]
            ELSE Raise("ValueError", part)
      [] current.k = "list" ->
            \* found: list indices must be integers; not found: the message
            \* asks a list for keys()
            IF InSeq(JStr(part), current.items)
            THEN Raise("TypeError", <<>>)
            ELSE Raise("AttributeError", <<>>)
      [] current.k = "str" ->
            IF IsSubstring(part, current.s)
            THEN Raise("TypeError", <<>>)
            ELSE Raise("AttributeError", <<>>)
      [] OTHER -> Raise("TypeError", <<>>)  \* argument is not iterable

RECURSIVE Walk(_, _)
Walk(current, path) ==
    IF path = <<>> THEN [k |-> "ok", v |-> current]
    ELSE LET r == WalkStep(current, Head(path))
         IN IF IsRaise(r) THEN r ELSE Walk(r.v, Tail(path))

RefPath(ref) == split(lstrip(ref, {"#", "/"}), "/")

resolve_ref(root_schema, ref) ==
    IF ~StartsWithLocal(ref) THEN Raise("ValueError", ref)
    ELSE Walk(root_schema, RefPath(ref))

----------------------------------------------------------------------------
(* get_field_type *)

TypeNames == {"string", "integer", "number", "boolean", "array", "object", "null"}

TYPEMAP(n) ==
    CASE n = "string" -> Prim("str")
      [] n = "integer" -> Prim("int")
      [] n = "number" -> Prim("float")
      [] n = "boolean" -> Prim("bool")
      [] n = "array" -> Prim("list")
      [] n = "object" -> Prim("dict")
      [] n = "null" -> NoneType

\* TYPEMAP.get(type_name, Any): a list or a dict is unhashable
TypemapGet(type_name, dflt) ==
    CASE type_name.k \in {"list", "obj"} -> Raise("TypeError", <<>>)
      [] type_name.k = "str" /\ Len(type_name.s) = 1 /\ type_name.s[1] \in TypeNames
            -> TYPEMAP(type_name.s[1])
      [] OTHER -> dflt

\* the digits of an enum value; the values drawn are 0, 1 and 2
IntText(n) == CASE n = 0 -> "0" [] n = 1 -> "1" [] n = 2 -> "2" [] OTHER -> "n"

\* str(v) of a JSON scalar
PyStr(v) ==
    CASE v.k = "str" -> v.s
      [] v.k = "int" -> <<IntText(v.n)>>
      [] v.k = "bool" -> IF v.b THEN <<"True">> ELSE <<"False">>
      [] OTHER -> <<"None">>

\* a == b on JSON scalars: bool is an int in Python (True == 1, False == 0)
NumOf(v) == IF v.k = "bool" THEN (IF v.b THEN 1 ELSE 0) ELSE v.n
PyEq(a, b) ==
    IF a.k \in {"int", "bool"} /\ b.k \in {"int", "bool"} THEN NumOf(a) = NumOf(b)
    ELSE a = b

\* d[key] = value on an ordered dict held as a sequence of pairs: an existing
\* key keeps its place and takes the new value
DictPut(d, key, value) ==
    IF \E i \in 1..Len(d) : d[i][1] = key
    THEN [i \in 1..Len(d) |-> IF d[i][1] = key THEN <<key, value>> ELSE d[i]]
    ELSE Append(d, <<key, value>>)

\* {str(v): v for v in values}
RECURSIVE EnumValues(_)
EnumValues(values) ==
    IF values = <<>> THEN <<>>
    ELSE LET v == values[Len(values)]
         IN DictPut(EnumValues(SubSeq(values, 1, Len(values) - 1)), PyStr(v), v)

\* Enum(enum_name, names): a name whose value equals an earlier member's value
\* is an alias of that member and no member of its own
RECURSIVE EnumMembers(_)
EnumMembers(d) ==
    IF d = <<>> THEN <<>>
    ELSE LET front == EnumMembers(SubSeq(d, 1, Len(d) - 1))
             last == d[Len(d)]
         IN IF \E i \in 1..Len(front) : PyEq(front[i][2], last[2])
            THEN front ELSE Append(front, last)

MakeEnum(values) == EnumT(EnumMembers(EnumValues(values)))

\* lines 100-111, given the mapped types of the anyOf sub-schemas
AnyOfType(mapped) ==
    LET types == DropNone(mapped)
    IN IF InSeq(NoneType, mapped)
       THEN IF Len(types) = 1 THEN PyOr(types[1], NoneType)
            ELSE PyUnion(Append(types, NoneType))
       ELSE IF Len(types) = 1 THEN types[1]
            ELSE PyUnion(types)

\* lines 123-132, the branch for a boolean additionalProperties
BoolAdditionalProps(G, additional_props) == DictT(G["Any"])

RECURSIVE get_field_type(_, _, _)
get_field_type(G, root_schema, type_def) ==
    IF ~IsDict(type_def) THEN G["Any"]
    ELSE IF Has(type_def, "$ref") THEN
        LET ref == Get(type_def, "$ref")
            referenced_schema == IF ref.k # "str" THEN Raise("AttributeError", <<>>)
                                 ELSE resolve_ref(root_schema, ref.s)
        IN IF IsRaise(referenced_schema) THEN referenced_schema
           ELSE IF ~IsDict(referenced_schema.v) THEN Raise("AttributeError", <<>>)
           ELSE Fwd(GetOr(referenced_schema.v, "title", JAtom("UntitledModel")))
    ELSE IF Has(type_def, "enum") THEN
        LET e == Get(type_def, "enum")
        IN IF e.k # "list" THEN Raise("TypeError", <<>>) ELSE MakeEnum(e.items)
    ELSE IF Has(type_def, "anyOf") THEN
        LET subs == Get(type_def, "anyOf")
            mapped == IF subs.k # "list" THEN <<>>
                      ELSE [i \in 1..Len(subs.items) |->
                                get_field_type(G, root_schema, subs.items[i])]
        IN IF subs.k # "list" THEN Raise("TypeError", <<>>)
           ELSE IF HasRaise(mapped) THEN FirstRaise(mapped)
           ELSE AnyOfType(mapped)
    ELSE IF ~Has(type_def, "type") THEN G["Any"]
    ELSE LET type_name == Get(type_def, "type") IN
        IF type_name = JAtom("array") THEN
            IF Has(type_def, "items")
            THEN LET item_type == get_field_type(G, root_schema, Get(type_def, "items"))
                 IN IF IsRaise(item_type) THEN item_type ELSE ListT(item_type)
            ELSE ListT(G["Any"])
        ELSE IF type_name = JAtom("object") THEN
            IF Has(type_def, "additionalProperties")
            THEN LET additional_props == Get(type_def, "additionalProperties")
                 IN IF additional_props.k = "bool"
                    THEN BoolAdditionalProps(G, additional_props)
                    ELSE LET value_type ==
                                 get_field_type(G, root_schema, additional_props)
                         IN IF IsRaise(value_type) THEN value_type
                            ELSE DictT(value_type)
            ELSE DictT(G["Any"])
        ELSE TypemapGet(type_name, G["Any"])

----------------------------------------------------------------------------
(* create_model_from_schema, lines 172-186: the fields of one model *)

\* field_name in required
InRequired(required, field_name) ==
    CASE required.k = "list" -> InSeq(JAtom(field_name), required.items)
      [] required.k = "obj" -> Has(required, field_name)
      [] required.k = "str" -> IsSubstring(<<field_name>>, required.s)
      [] OTHER -> FALSE

\* lines 179-181: the type and default of a field that is not required and
\* has no default
Widen(field_type) == PyOr(field_type, NoneType)

\* lines 177-184, one pass of the loop
BuildField(G, root_schema, required, field_name, field_schema) ==
    LET field_type == get_field_type(G, root_schema, field_schema)
        default == GetOr(field_schema, "default", Ellipsis)
        optional == ~InRequired(required, field_name) /\ default = Ellipsis
        final_type == IF optional THEN Widen(field_type) ELSE field_type
    IN IF IsRaise(field_type) THEN field_type
       ELSE IF ~IsDict(field_schema) THEN Raise("AttributeError", <<>>)
       ELSE IF required.k \notin {"list", "obj", "str"} THEN Raise("TypeError", <<>>)
       ELSE IF IsRaise(final_type) THEN final_type
       ELSE [k |-> "field", name |-> field_name, type |-> final_type,
             default |-> IF optional THEN JNull ELSE default,
             description |-> GetOr(field_schema, "description", JStr(<<>>))]

\* lines 172-184: the fields in the order of `properties`, or the first
\* exception raised on the way
BuildFields(G, root_schema, schema) ==
    LET properties == GetOr(schema, "properties", JObj(<<>>))
        required == GetOr(schema, "required", JList(<<>>))
        built == [i \in 1..Len(properties.kv) |->
                     BuildField(G, root_schema, required,
                                properties.kv[i][1], properties.kv[i][2])]
    IN IF HasRaise(built) THEN FirstRaise(built)
       ELSE [k |-> "fields", fields |-> built]

----------------------------------------------------------------------------
(* Inputs: schema documents, type definitions and pointers *)

MaxAnyOf == 3      \* longest anyOf list drawn
MaxRuns == 3       \* top-level calls made in all

Ptr(path) == <<"#", "/">> \o path
RefTo(key) == JObj(<< <<"$ref", JStr(Ptr(<<"$defs", "/", key>>))>> >>)
TypeIs(n) == JObj(<< <<"type", JAtom(n)>> >>)
ArrayOf(items) == JObj(<< <<"type", JAtom("array")>>, <<"items", items>> >>)
MapOf(ap) == JObj(<< <<"type", JAtom("object")>>, <<"additionalProperties", ap>> >>)
EnumOf(values) == JObj(<< <<"enum", JList(values)>> >>)
AnyOf(subs) == JObj(<< <<"anyOf", JList(subs)>> >>)
Names(ns) == JList([i \in 1..Len(ns) |-> JAtom(ns[i])])

\* an object schema: title (or "" for none), properties, required
Model(title, properties, required) ==
    JObj((IF title = "" THEN <<>> ELSE << <<"title", JAtom(title)>> >>)
         \o << <<"type", JAtom("object")>>,
               <<"properties", JObj(properties)>>,
               <<"required", Names(required)>> >>)

WithDefs(schema, defs) == JObj(schema.kv \o << <<"$defs", JObj(defs)>> >>)

\* tests/conftest.py, the read_file tool
ReadFileSchema ==
    JObj(<< <<"type", JAtom("object")>>,
            <<"properties", JObj(<< <<"path", TypeIs("string")>> >>)>>,
            <<"required", Names(<<"path">>)>>,
            <<"additionalProperties", JBool(FALSE)>>,
            <<"$schema", JStr(<<"http:", "/", "/", "json-schema.org", "/",
                                "draft-07", "/", "schema", "#">>)>> >>)

\* x required, y optional
XYSchema ==
    Model("", << <<"x", TypeIs("string")>>, <<"y", TypeIs("integer")>> >>, <<"x">>)

\* A and B refer to each other through required fields
CycleRequired ==
    WithDefs(Model("", << <<"a", RefTo("A")>> >>, <<"a">>),
             << <<"A", Model("A", << <<"b", RefTo("B")>> >>, <<"b">>)>>,
                <<"B", Model("B", << <<"a", RefTo("A")>> >>, <<"a">>)>> >>)

\* the same cycle, B's field not required
CycleOptional ==
    WithDefs(Model("", << <<"a", RefTo("A")>> >>, <<"a">>),
             << <<"A", Model("A", << <<"b", RefTo("B")>> >>, <<"b">>)>>,
                <<"B", Model("B", << <<"a", RefTo("A")>> >>, <<>>)>> >>)

\* A refers to itself through a list
SelfCycle ==
    WithDefs(Model("", << <<"a", RefTo("A")>> >>, <<"a">>),
             << <<"A", Model("A", << <<"kids", ArrayOf(RefTo("A"))>> >>, <<>>)>> >>)

\* B is referenced by the root and by A
SharedB ==
    WithDefs(Model("", << <<"a", RefTo("A")>>, <<"b", RefTo("B")>> >>, <<"a", "b">>),
             << <<"A", Model("A", << <<"b", RefTo("B")>> >>, <<"b">>)>>,
                <<"B", Model("B", << <<"n", TypeIs("integer")>> >>, <<"n">>)>> >>)

\* B carries no title and has an untyped property; Color is a definition that
\* is no object
Untitled ==
    WithDefs(Model("", << <<"b", RefTo("B")>>, <<"c", RefTo("Color")>> >>, <<"b", "c">>),
             << <<"B", Model("", << <<"n", TypeIs("integer")>>,
                                    <<"extra", JObj(<<>>)>> >>, <<>>)>>,
                <<"Color", JObj(<< <<"title", JAtom("Color")>>,
                                   <<"enum", Names(<<"red", "green">>)>> >>)>> >>)

\* B's field points at a definition that does not exist
MissingRef ==
    WithDefs(Model("", << <<"b", RefTo("B")>> >>, <<"b">>),
             << <<"B", Model("B", << <<"m", RefTo("Missing")>> >>, <<"m">>)>> >>)

\* a definition that is a boolean schema
BooleanDef ==
    WithDefs(Model("", << <<"x", TypeIs("string")>> >>, <<"x">>),
             << <<"Anything", JBool(TRUE)>> >>)

\* the document the probed type definitions belong to
ProbeRoot ==
    WithDefs(ReadFileSchema,
             << <<"B", Model("B", << <<"n", TypeIs("integer")>> >>, <<"n">>)>>,
                <<"U", Model("", <<>>, <<>>)>> >>)

\* the documents by name: the state holds the name, not the document
DocOf(id) ==
    CASE id = "ReadFile" -> ReadFileSchema
      [] id = "XY" -> XYSchema
      [] id = "CycleRequired" -> CycleRequired
      [] id = "CycleOptional" -> CycleOptional
      [] id = "SelfCycle" -> SelfCycle
      [] id = "SharedB" -> SharedB
      [] id = "Untitled" -> Untitled
      [] id = "MissingRef" -> MissingRef
      [] id = "BooleanDef" -> BooleanDef
      [] id = "ProbeRoot" -> ProbeRoot
      [] OTHER -> JNull

\* a top-level call: create_model_from_schema(DocOf(doc), name)
Job(doc, name) == [doc |-> doc, name |-> name]
JobSchema(j) == DocOf(j.doc)

Jobs == { Job("ReadFile", "read_file"), Job("XY", "Any"),
          Job("CycleRequired", "R"), Job("CycleOptional", "R"), Job("SelfCycle", "R"),
          Job("SharedB", "R"), Job("SharedB", "A"), Job("Untitled", "R"),
          Job("MissingRef", "R"), Job("BooleanDef", "R") }

\* type definitions
Leaves ==
    { TypeIs("string"), TypeIs("integer"), TypeIs("null"), TypeIs("uuid"),
      JObj(<<>>), JBool(TRUE), RefTo("B"), RefTo("Missing"),
      EnumOf(<<JAtom("a"), JAtom("b"), JAtom("c")>>),
      EnumOf(<<JInt(1), JAtom("1")>>), EnumOf(<<JInt(1), JBool(TRUE)>>),
      TypeIs("object"), TypeIs("array"), MapOf(JBool(FALSE)), MapOf(JBool(TRUE)),
      JObj(<< <<"type", JAtom("object")>>,
              <<"properties", JObj(<< <<"n", TypeIs("integer")>> >>)>>,
              <<"additionalProperties", JBool(FALSE)>> >>),
      JObj(<< <<"type", Names(<<"string", "null">>)>> >>) }

Variants ==
    { TypeIs("string"), TypeIs("integer"), TypeIs("null"), RefTo("B"),
      ArrayOf(RefTo("B")), AnyOf(<<TypeIs("integer"), TypeIs("null")>>) }

SeqsUpTo(n, S) == UNION {[1..m -> S] : m \in 0..n}

TypeDefs ==
    Leaves \cup {ArrayOf(t) : t \in Leaves} \cup {MapOf(t) : t \in Leaves}
           \cup {AnyOf(q) : q \in SeqsUpTo(MaxAnyOf, Variants)}

Pointers ==
    { Ptr(<<"$defs", "/", "B">>), Ptr(<<"$defs", "/", "Missing">>),
      Ptr(<<"$defs", "/", "B", "/", "title">>), Ptr(<<"$defs">>),
      Ptr(<<"properties", "/", "path", "/", "type">>),
      Ptr(<<"type", "/", "object">>), Ptr(<<"type", "/", "path">>),
      Ptr(<<"required", "/", "path">>), Ptr(<<"required", "/", "y">>),
      Ptr(<<"additionalProperties", "/", "path">>),
      Ptr(<<"/", "$defs", "/", "B">>), Ptr(<<"#", "$defs", "/", "B">>),
      Ptr(<<>>), <<"#">>, <<>>, <<"$defs", "/", "B">>,
      <<"http:", "/", "/", "host", "/", "schema">> }

ProbeDocs == {j.doc : j \in Jobs} \cup {"ProbeRoot"}

\* a model with the one property p
Fragment(field_schema, required, default) ==
    Model("", << <<"p", IF default = Ellipsis \/ ~IsDict(field_schema)
                        THEN field_schema
                        ELSE JObj(field_schema.kv \o << <<"default", default>> >>)>> >>,
          required)

Fragments ==
    { Fragment(t, r, d) : t \in TypeDefs, r \in {<<>>, <<"p">>},
                          d \in {Ellipsis, JNull, JInt(1)} }
    \cup {XYSchema}

----------------------------------------------------------------------------
(* create_model_from_schema as a state machine.  A caller makes top-level   *)
(* calls; each call is a stack of frames, one per active invocation.        *)

Callers == {1, 2}

NoJob == [doc |-> "", name |-> ""]
NoObject == [k |-> "none"]

\* One invocation.  frag tells which fragment its `schema` is: <<>> for the
\* document itself, <<key>> for root_schema["$defs"][key].
Frame(name, frag, cm) ==
    [name |-> name, frag |-> frag, cm |-> cm, pc |-> "enter", i |-> 1,
     model |-> NoObject]

Top(c) == stack[c][Len(stack[c])]
Running(c) == status[c] = "running" /\ stack[c] # <<>>
Root(c) == JobSchema(job[c])          \* root_schema, lines 156-157
Schema(c) ==                          \* the top frame's schema
    IF Top(c).frag = <<>> THEN Root(c) ELSE Get(Get(Root(c), "$defs"), Top(c).frag[1])
Created(c) == sets[c][Top(c).cm]      \* the set the top frame's created_models names

SetTop(c, f) == [stack EXCEPT ![c] = [@ EXCEPT ![Len(@)] = f]]

\* line 164: created_models.add(name)
MarkCreated(created, name) == created \cup {name}

\* the recursive call handed a copy of the set
PassCopyOfCreatedModels(heap, cm) ==
    [heap |-> Append(heap, heap[cm]), cm |-> Len(heap) + 1]

\* line 170: the argument created_models of the recursive call: the caller's own
\* set object, not a copy
PassCreatedModels(heap, cm) == [heap |-> heap, cm |-> cm]

\* line 169: the guard of the recursive call
NeedsBuild(model_schema, model_name, created) ==
    GetOr(model_schema, "type", JNull) = JAtom("object") /\ model_name \notin created

\* line 186: pydantic's create_model; id tells the class objects apart
create_model(name, fields, id) ==
    [k |-> "model", name |-> name, fields |-> fields, id |-> id]

\* line 188: setattr(sys.modules[__name__], name, model)
SetAttr(ns, name, obj) ==
    [n \in DOMAIN ns \cup {name} |-> IF n = name THEN obj ELSE ns[n]]

\* Of the module's own globals only Any, which get_field_type reads, is kept.
Init ==
    /\ module = [n \in {"Any"} |-> AnyT]
    /\ status = [c \in Callers |-> "idle"]
    /\ job = [c \in Callers |-> NoJob]
    /\ stack = [c \in Callers |-> <<>>]
    /\ sets = [c \in Callers |-> <<>>]
    /\ exc = [c \in Callers |-> NoObject]
    /\ result = [c \in Callers |-> NoObject]
    /\ runs = [c \in Callers |-> 0]
    /\ fresh = [c \in Callers |-> TRUE]
    /\ registry = [c \in Callers |-> 0]
    /\ constructed = [c \in Callers |-> <<>>]
    /\ committed = [c \in Callers |-> <<>>]
    /\ probe = [op |-> "none"]

RECURSIVE SumOver(_, _)
SumOver(f, S) ==
    IF S = {} THEN 0
    ELSE LET x == CHOOSE y \in S : TRUE IN f[x] + SumOver(f, S \ {x})

TotalRuns == SumOver(runs, Callers)

\* a top-level call without created_models (lines 152-153 allocate the set),
\* or with a new empty set that the caller keeps
Start(c) ==
    /\ status[c] # "running"
    /\ TotalRuns < MaxRuns
    /\ \E j \in (IF runs[c] = 0 THEN Jobs ELSE {job[c]}) :
          /\ job' = [job EXCEPT ![c] = j]
          /\ stack' = [stack EXCEPT ![c] = <<Frame(j.name, <<>>, Len(sets[c]) + 1)>>]
    /\ sets' = [sets EXCEPT ![c] = Append(@, {})]
    /\ registry' = [registry EXCEPT ![c] = Len(sets[c]) + 1]
    /\ fresh' = [fresh EXCEPT ![c] = TRUE]
    /\ status' = [status EXCEPT ![c] = "running"]
    /\ runs' = [runs EXCEPT ![c] = @ + 1]
    /\ exc' = [exc EXCEPT ![c] = NoObject]
    /\ result' = [result EXCEPT ![c] = NoObject]
    /\ constructed' = [constructed EXCEPT ![c] = <<>>]
    /\ committed' = [committed EXCEPT ![c] = <<>>]
    /\ UNCHANGED <<module, probe>>

\* a top-level call for the same schema and name that passes the set the
\* caller's last call used
Restart(c) ==
    /\ status[c] \in {"done", "failed"}
    /\ TotalRuns < MaxRuns
    /\ stack' = [stack EXCEPT ![c] = <<Frame(job[c].name, <<>>, registry[c])>>]
    /\ fresh' = [fresh EXCEPT ![c] = FALSE]
    /\ status' = [status EXCEPT ![c] = "running"]
    /\ runs' = [runs EXCEPT ![c] = @ + 1]
    /\ exc' = [exc EXCEPT ![c] = NoObject]
    /\ result' = [result EXCEPT ![c] = NoObject]
    /\ constructed' = [constructed EXCEPT ![c] = <<>>]
    /\ committed' = [committed EXCEPT ![c] = <<>>]
    /\ UNCHANGED <<module, job, sets, registry, probe>>

\* the top frame returns obj: to its caller's loop, or to the top-level caller
Return(c, obj) ==
    /\ stack' = [stack EXCEPT ![c] = SubSeq(@, 1, Len(@) - 1)]
    /\ IF Len(stack[c]) = 1
       THEN /\ status' = [status EXCEPT ![c] = "done"]
            /\ result' = [result EXCEPT ![c] = obj]
       ELSE UNCHANGED <<status, result>>

\* an exception leaves every frame: nothing catches it
Fail(c, e) ==
    /\ stack' = [stack EXCEPT ![c] = <<>>]
    /\ status' = [status EXCEPT ![c] = "failed"]
    /\ exc' = [exc EXCEPT ![c] = e]

\* lines 160-161: the name is in created_models, the class is read from the module
EnterCached(c) ==
    /\ Running(c) /\ Top(c).pc = "enter"
    /\ Top(c).name \in Created(c)
    /\ IF Top(c).name \in DOMAIN module
       THEN Return(c, module[Top(c).name]) /\ UNCHANGED exc
       ELSE Fail(c, Raise("AttributeError", <<Top(c).name>>)) /\ UNCHANGED result
    /\ UNCHANGED <<module, job, sets, runs, fresh, registry, constructed,
                   committed, probe>>

\* lines 160-164: the name is new and is added before anything is built
EnterNew(c) ==
    /\ Running(c) /\ Top(c).pc = "enter"
    /\ Top(c).name \notin Created(c)
    /\ sets' = [sets EXCEPT ![c][Top(c).cm] = MarkCreated(@, Top(c).name)]
    /\ stack' = SetTop(c, [Top(c) EXCEPT !.pc = "defs"])
    /\ UNCHANGED <<module, status, job, exc, result, runs, fresh, registry,
                   constructed, committed, probe>>

Defs(c) == IF Has(Root(c), "$defs") THEN Get(Root(c), "$defs").kv ELSE <<>>

\* lines 167-168: no $defs, or the loop is over
DefsDone(c) ==
    /\ Running(c) /\ Top(c).pc = "defs"
    /\ Top(c).i > Len(Defs(c))
    /\ stack' = SetTop(c, [Top(c) EXCEPT !.pc = "fields"])
    /\ UNCHANGED <<module, status, job, sets, exc, result, runs, fresh, registry,
                   constructed, committed, probe>>

\* lines 168-169: a definition that is no object or is in created_models
DefsSkip(c) ==
    /\ Running(c) /\ Top(c).pc = "defs"
    /\ Top(c).i <= Len(Defs(c))
    /\ IsDict(Defs(c)[Top(c).i][2])
    /\ ~NeedsBuild(Defs(c)[Top(c).i][2], Defs(c)[Top(c).i][1], Created(c))
    /\ stack' = SetTop(c, [Top(c) EXCEPT !.i = @ + 1])
    /\ UNCHANGED <<module, status, job, sets, exc, result, runs, fresh, registry,
                   constructed, committed, probe>>

\* line 169: a definition that is no dict has no get()
DefsRaise(c) ==
    /\ Running(c) /\ Top(c).pc = "defs"
    /\ Top(c).i <= Len(Defs(c))
    /\ ~IsDict(Defs(c)[Top(c).i][2])
    /\ Fail(c, Raise("AttributeError", <<>>))
    /\ UNCHANGED <<module, job, sets, result, runs, fresh, registry, constructed,
                   committed, probe>>

\* lines 168-170: the recursive call for a definition
DefsCall(c) ==
    /\ Running(c) /\ Top(c).pc = "defs"
    /\ Top(c).i <= Len(Defs(c))
    /\ IsDict(Defs(c)[Top(c).i][2])
    /\ NeedsBuild(Defs(c)[Top(c).i][2], Defs(c)[Top(c).i][1], Created(c))
    /\ LET arg == PassCreatedModels(sets[c], Top(c).cm)
           d == Defs(c)[Top(c).i]
       IN /\ sets' = [sets EXCEPT ![c] = arg.heap]
          /\ stack' = [stack EXCEPT ![c] =
                 Append([@ EXCEPT ![Len(@)] = [Top(c) EXCEPT !.i = @ + 1]],
                        Frame(d[1], <<d[1]>>, arg.cm))]
    /\ UNCHANGED <<module, status, job, exc, result, runs, fresh, registry,
                   constructed, committed, probe>>

\* lines 172-186: the fields are built and create_model makes the class
ConstructOk(c) ==
    /\ Running(c) /\ Top(c).pc = "fields"
    /\ LET out == BuildFields(module, Root(c), Schema(c))
       IN /\ ~IsRaise(out)
          /\ stack' = SetTop(c, [Top(c) EXCEPT
                 !.pc = "commit",
                 !.model = create_model(Top(c).name, out.fields, <<c, runs[c]>>)])
    /\ constructed' = [constructed EXCEPT ![c] = Append(@, Top(c).name)]
    /\ UNCHANGED <<module, status, job, sets, exc, result, runs, fresh, registry,
                   committed, probe>>

\* lines 172-184: a field raises and the call ends
ConstructRaise(c) ==
    /\ Running(c) /\ Top(c).pc = "fields"
    /\ LET out == BuildFields(module, Root(c), Schema(c))
       IN IsRaise(out) /\ Fail(c, out)
    /\ constructed' = [constructed EXCEPT ![c] = Append(@, Top(c).name)]
    /\ UNCHANGED <<module, job, sets, result, runs, fresh, registry, committed, probe>>

\* lines 188-189: the class is stored in the module and returned
Commit(c) ==
    /\ Running(c) /\ Top(c).pc = "commit"
    /\ module' = SetAttr(module, Top(c).name, Top(c).model)
    /\ committed' = [committed EXCEPT ![c] = Append(@, Top(c).model)]
    /\ Return(c, Top(c).model)
    /\ UNCHANGED <<job, sets, exc, runs, fresh, registry, constructed, probe>>

Next ==
    \E c \in Callers :
        \/ Start(c) \/ Restart(c)
        \/ EnterCached(c) \/ EnterNew(c)
        \/ DefsDone(c) \/ DefsSkip(c) \/ DefsRaise(c) \/ DefsCall(c)
        \/ ConstructOk(c) \/ ConstructRaise(c)
        \/ Commit(c)

Spec == Init /\ [][Next]_vars

----------------------------------------------------------------------------
(* The pure functions, called directly.  Type definitions and fragments are *)
(* read against the document ProbeRoot.                                     *)

ProbeResolve ==
    /\ probe.op = "none"
    /\ \E doc \in ProbeDocs, ref \in Pointers :
          probe' = [op |-> "resolve_ref", doc |-> doc, ref |-> ref,
                    out |-> resolve_ref(DocOf(doc), ref)]
    /\ UNCHANGED buildVars

ProbeType ==
    /\ probe.op = "none"
    /\ \E td \in TypeDefs :
          probe' = [op |-> "get_field_type", td |-> td,
                    out |-> get_field_type(module, ProbeRoot, td)]
    /\ UNCHANGED buildVars

ProbeFields ==
    /\ probe.op = "none"
    /\ \E schema \in Fragments :
          probe' = [op |-> "fields", schema |-> schema,
                    out |-> BuildFields(module, ProbeRoot, schema)]
    /\ UNCHANGED buildVars

NextMap == ProbeResolve \/ ProbeType \/ ProbeFields

SpecMap == Init /\ [][NextMap]_vars

----------------------------------------------------------------------------
(* Vocabulary of the properties *)

Finished(c) == status[c] \in {"done", "failed"}

Count(xs, x) == Cardinality({i \in 1..Len(xs) : xs[i] = x})

DefsOf(doc) == IF Has(doc, "$defs") THEN Get(doc, "$defs") ELSE JObj(<<>>)

\* the $defs keys whose fragment has type object
ObjectDefs(doc) ==
    {key \in Keys(DefsOf(doc)) :
        /\ IsDict(Get(DefsOf(doc), key))
        /\ GetOr(Get(DefsOf(doc), key), "type", JNull) = JAtom("object")}

\* the names one top-level call is to build
ExpectedNames(j) == ObjectDefs(JobSchema(j)) \cup {j.name}

CommittedNames(c) == {committed[c][i].name : i \in 1..Len(committed[c])}

\* the $defs keys the $ref pointers inside a JSON value point at
RECURSIVE RefKeysOf(_)
RefKeysOf(v) ==
    CASE v.k = "obj" ->
            IF Has(v, "$ref")
            THEN LET r == Get(v, "$ref")
                 IN IF r.k = "str" /\ Len(r.s) = 5
                       /\ SubSeq(r.s, 1, 4) = <<"#", "/", "$defs", "/">>
                    THEN {r.s[5]} ELSE {}
            ELSE UNION {RefKeysOf(v.kv[i][2]) : i \in 1..Len(v.kv)}
      [] v.k = "list" -> UNION {RefKeysOf(v.items[i]) : i \in 1..Len(v.items)}
      [] OTHER -> {}

\* the definitions reachable from a set of keys in at most n reference steps
RECURSIVE ReachIn(_, _, _)
ReachIn(doc, from, n) ==
    IF n = 0 THEN from
    ELSE ReachIn(doc, from \cup UNION {RefKeysOf(Get(DefsOf(doc), key)) :
                                          key \in from \cap Keys(DefsOf(doc))}, n - 1)

HasCycle(doc) ==
    \E key \in Keys(DefsOf(doc)) :
        key \in ReachIn(doc, RefKeysOf(Get(DefsOf(doc), key)),
                        Cardinality(Keys(DefsOf(doc))))

\* the values returned as forward references inside a type
RECURSIVE FwdTitles(_)
FwdTitles(t) ==
    CASE t.k = "fwd" -> {t.title}
      [] t.k = "list" -> FwdTitles(t.item)
      [] t.k = "dict" -> FwdTitles(t.value)
      [] t.k = "Union" -> UNION {FwdTitles(t.args[i]) : i \in 1..Len(t.args)}
      [] OTHER -> {}

ArgsOf(t) == IF t.k = "Union" THEN t.args ELSE <<t>>
Nullable(t) == InSeq(NoneType, ArgsOf(t))
NonNullArgs(t) == DropNone(ArgsOf(t))

\* the fragment a committed model was built from
FragmentOf(j, name) ==
    IF name = j.name THEN JobSchema(j) ELSE Get(DefsOf(JobSchema(j)), name)

----------------------------------------------------------------------------
(* C2 *)

\* C2 (idempotent memoization): within one top-level call, lines 172-186 never
\* run twice for a name and run for no name the call is not to build; when a
\* call made without created_models returns, they have run exactly once, and
\* one class has been stored, for the root name and for every object-typed
\* $defs key, however often the name is referenced and however often the
\* $defs loop was entered.
MemoOnce ==
    \A c \in Callers :
        /\ \A i \in 1..Len(constructed[c]) :
              /\ Count(constructed[c], constructed[c][i]) = 1
              /\ constructed[c][i] \in ExpectedNames(job[c])
        /\ (status[c] = "done" /\ fresh[c]) =>
              \A n \in ExpectedNames(job[c]) :
                  /\ Count(constructed[c], n) = 1
                  /\ Cardinality({i \in 1..Len(committed[c]) :
                                     committed[c][i].name = n}) = 1

\* B, referenced by the root and by A and met by three $defs loops, was built
\* once in a call that returned
MemoOnceWitness ==
    \E c \in Callers :
        /\ status[c] = "done" /\ fresh[c]
        /\ job[c] = Job("SharedB", "R")
        /\ constructed[c] = <<"B", "A", "R">>

----------------------------------------------------------------------------
(* C1 *)

\* C1 (cycle termination): a top-level call made without created_models on a
\* document whose $defs refer to each other in a cycle never has two frames
\* for one name, and when it has ended it has returned, with a class stored
\* for the root name and for every object-typed $defs key.
CycleBuildSucceeds ==
    \A c \in Callers :
        (fresh[c] /\ job[c] # NoJob /\ HasCycle(JobSchema(job[c]))) =>
            /\ \A i, k \in 1..Len(stack[c]) :
                  stack[c][i].name = stack[c][k].name => i = k
            /\ Finished(c) =>
                  /\ status[c] = "done"
                  /\ ExpectedNames(job[c]) \subseteq CommittedNames(c)

----------------------------------------------------------------------------
(* C3 *)

PropertiesOf(schema) == GetOr(schema, "properties", JObj(<<>>)).kv

\* C3 (required/optional default policy): when every property of a fragment
\* is a schema that get_field_type maps to a type, the fields are built; a
\* property outside `required` with no `default` gets a nullable type and the
\* default null, a property in `required` with no `default` keeps its type
\* and has no default, a property with a `default` keeps its type and that
\* default.
DefaultPolicy ==
    (probe.op = "fields"
     /\ \A i \in 1..Len(PropertiesOf(probe.schema)) :
           /\ IsDict(PropertiesOf(probe.schema)[i][2])
           /\ ~IsRaise(get_field_type(module, ProbeRoot,
                                      PropertiesOf(probe.schema)[i][2])))
    => /\ ~IsRaise(probe.out)
       /\ Len(probe.out.fields) = Len(PropertiesOf(probe.schema))
       /\ \A i \in 1..Len(PropertiesOf(probe.schema)) :
             LET p == PropertiesOf(probe.schema)[i]
                 f == probe.out.fields[i]
                 mapped == get_field_type(module, ProbeRoot, p[2])
                 required == InSeq(JAtom(p[1]), Get(probe.schema, "required").items)
             IN /\ f.name = p[1]
                /\ IF Has(p[2], "default")
                   THEN f.type = mapped /\ f.default = Get(p[2], "default")
                   ELSE IF required
                   THEN f.type = mapped /\ f.default = Ellipsis
                   ELSE /\ Nullable(f.type) /\ f.default = JNull
                        /\ NonNullArgs(f.type) = NonNullArgs(mapped)

----------------------------------------------------------------------------
(* C4 *)

MappedSubs(G, root, td) ==
    [i \in 1..Len(Get(td, "anyOf").items) |->
        get_field_type(G, root, Get(td, "anyOf").items[i])]

\* C4 (anyOf null-flattening): for a non-empty anyOf list whose sub-schemas
\* all map to a type, the result is a type; its variants other than null are
\* the mapped variants other than null in source order, and it is nullable
\* exactly when a null was among them.
AnyOfNullFlattening ==
    (probe.op = "get_field_type" /\ IsDict(probe.td)
     /\ ~Has(probe.td, "$ref") /\ ~Has(probe.td, "enum") /\ Has(probe.td, "anyOf")
     /\ Get(probe.td, "anyOf").items # <<>>
     /\ ~HasRaise(MappedSubs(module, ProbeRoot, probe.td)))
    => LET mapped == MappedSubs(module, ProbeRoot, probe.td)
       IN /\ ~IsRaise(probe.out)
          /\ NonNullArgs(probe.out) = DropNone(Dedup(Flatten(mapped)))
          /\ Nullable(probe.out) <=> \E i \in 1..Len(mapped) : Nullable(mapped[i])

----------------------------------------------------------------------------
(* C5 *)

\* the walk the pointer asks for: the text after "#/" cut at every "/", one
\* key per step, each step on a mapping that holds the key
RECURSIVE PointerWalk(_, _)
PointerWalk(current, segments) ==
    IF segments = <<>> THEN [k |-> "ok", v |-> current]
    ELSE IF current.k = "obj" /\ \E key \in Keys(current) : KeyIs(key, Head(segments))
    THEN PointerWalk(Get(current, CHOOSE key \in Keys(current) :
                                      KeyIs(key, Head(segments))), Tail(segments))
    ELSE [k |-> "unresolved", seg |-> Head(segments)]

PointerMeaning(doc, ref) ==
    IF ~StartsWithLocal(ref) THEN [k |-> "unresolved", seg |-> ref]
    ELSE PointerWalk(doc, split(SubSeq(ref, 3, Len(ref)), "/"))

\* C5 (unresolved reference surfaces cleanly): resolve_ref returns the
\* fragment the pointer's segments lead to, or raises the one error of an
\* unresolved reference, naming the segment, exactly when the pointer is not
\* local or a segment is missing at its step.
ResolveRefContract ==
    probe.op = "resolve_ref" =>
        LET want == PointerMeaning(DocOf(probe.doc), probe.ref)
        IN IF want.k = "ok" THEN probe.out = want
           ELSE /\ IsRaise(probe.out)
                /\ probe.out.exc = "ValueError"
                /\ probe.out.seg = want.seg

----------------------------------------------------------------------------
(* C6 *)

EnumCollision(values) ==
    \E i, j \in 1..Len(values) :
        i # j /\ values[i] # values[j] /\ PyStr(values[i]) = PyStr(values[j])

\* C6 (enum naming collisions are a build error): an enum list with two
\* distinct values of the same string form raises NamingCollision; any other
\* enum list gives one member per listed value, in source order.
EnumCollisionIsError ==
    (probe.op = "get_field_type" /\ IsDict(probe.td)
     /\ ~Has(probe.td, "$ref") /\ Has(probe.td, "enum"))
    => LET values == Get(probe.td, "enum").items
       IN IF EnumCollision(values)
          THEN IsRaise(probe.out) /\ probe.out.exc = "NamingCollision"
          ELSE /\ probe.out.k = "Enum"
               /\ probe.out.members =
                      [i \in 1..Len(values) |-> <<PyStr(values[i]), values[i]>>]

----------------------------------------------------------------------------
(* C7 *)

ClosedMap == DictT([k |-> "Nothing"])

IsPlainObject(td) ==
    /\ IsDict(td) /\ ~Has(td, "$ref") /\ ~Has(td, "enum") /\ ~Has(td, "anyOf")
    /\ GetOr(td, "type", JNull) = JAtom("object")

\* C7 (map vs. record): an object schema without `properties` maps to the map
\* type its additionalProperties gives (a schema: map of that schema's type;
\* true or absent: map of any; false: the closed map), an object schema with
\* `properties` never maps to a map, and the fields built for a fragment are
\* its declared properties.
MapVsRecord ==
    /\ (probe.op = "get_field_type" /\ IsPlainObject(probe.td)) =>
          IF Has(probe.td, "properties") THEN probe.out.k # "dict"
          ELSE IF ~Has(probe.td, "additionalProperties")
               THEN probe.out = DictT(AnyT)
          ELSE LET ap == Get(probe.td, "additionalProperties")
               IN IF ap.k = "bool"
                  THEN probe.out = (IF ap.b THEN DictT(AnyT) ELSE ClosedMap)
                  ELSE \/ IsRaise(get_field_type(module, ProbeRoot, ap))
                       \/ probe.out = DictT(get_field_type(module, ProbeRoot, ap))
    /\ (probe.op = "fields" /\ ~IsRaise(probe.out)) =>
          [i \in 1..Len(probe.out.fields) |-> probe.out.fields[i].name]
              = [i \in 1..Len(PropertiesOf(probe.schema)) |->
                    PropertiesOf(probe.schema)[i][1]]

----------------------------------------------------------------------------
(* C8 *)

\* the fragments a top-level call builds fields for
BuiltFragments(j) ==
    {JobSchema(j)} \cup {Get(DefsOf(JobSchema(j)), key) :
                             key \in ObjectDefs(JobSchema(j)) \ {j.name}}

\* whether the call fails when nothing else runs
FailsAlone(j) ==
    \/ \E key \in Keys(DefsOf(JobSchema(j))) :
          ~IsDict(Get(DefsOf(JobSchema(j)), key))
    \/ \E frag \in BuiltFragments(j) :
          IsRaise(BuildFields([n \in {"Any"} |-> AnyT], JobSchema(j), frag))

\* the fields the call builds for a name when nothing else runs
FieldsAlone(j, name) ==
    BuildFields([n \in {"Any"} |-> AnyT], JobSchema(j), FragmentOf(j, name)).fields

\* C8 (independent builds do not interfere): two callers, each with its own
\* created_models, their steps interleaved in any way: a call made without
\* created_models ends as it does alone and stores the classes it stores
\* alone, and once it has returned, every name its classes refer to that it
\* stored a class under is bound in the module to the class it stored.
BuildsIndependent ==
    \A c \in Callers :
        /\ (Finished(c) /\ fresh[c]) => (status[c] = "failed" <=> FailsAlone(job[c]))
        /\ (status[c] = "done" /\ fresh[c]) =>
              \A i \in 1..Len(committed[c]) :
                  committed[c][i].fields = FieldsAlone(job[c], committed[c][i].name)
        /\ status[c] = "done" =>
              \A i \in 1..Len(committed[c]) :
                  \A k \in 1..Len(committed[c][i].fields) :
                      \A t \in FwdTitles(committed[c][i].fields[k].type) :
                          \A n \in CommittedNames(c) :
                              t = JAtom(n) => module[n].id = <<c, runs[c]>>

----------------------------------------------------------------------------
(* C9 *)

\* C9 (referential integrity): when a call made without created_models has
\* returned, the names a field of a stored class holds as references are the
\* names under which the object-typed $defs fragments its schema points at
\* were stored: their $defs keys.
RefsNameCommitted ==
    \A c \in Callers :
        (status[c] = "done" /\ fresh[c]) =>
            \A i \in 1..Len(committed[c]) :
                LET m == committed[c][i]
                    props == GetOr(FragmentOf(job[c], m.name), "properties", JObj(<<>>))
                IN \A k \in 1..Len(m.fields) :
                      LET keys == RefKeysOf(Get(props, m.fields[k].name))
                      IN keys \subseteq ObjectDefs(JobSchema(job[c])) =>
                            /\ FwdTitles(m.fields[k].type) = {JAtom(key) : key \in keys}
                            /\ keys \subseteq CommittedNames(c)

----------------------------------------------------------------------------
(* C10 *)

\* C10 (registry lifecycle): when a call has ended with the error of an
\* unresolved reference, no name is left in its created_models without a
\* class stored for it in the module, so that a later lookup of the name
\* through the same created_models finds a definition.
RegistryLifecycle ==
    \A c \in Callers :
        (status[c] = "failed" /\ exc[c].exc = "ValueError") =>
            \A n \in sets[c][registry[c]] :
                n \in DOMAIN module /\ module[n].k = "model"

====
